---- MODULE Spec2Model ----
(***************************************************************************)
(* server.py: a static file server for local development.                  *)
(*                                                                         *)
(* The script changes into its own directory, binds a                      *)
(* socketserver.TCPServer on ("", PORT) with MyHTTPRequestHandler, prints  *)
(* two lines and runs serve_forever() until KeyboardInterrupt.             *)
(* MyHTTPRequestHandler is http.server.SimpleHTTPRequestHandler with       *)
(* end_headers overridden to send three CORS headers first.                *)
(*                                                                         *)
(* The request handler is modelled as operators over a handler record h    *)
(* (request_version, command, _headers_buffer, the bytes written to wfile);*)
(* the script itself as one process per started instance.                  *)
(***************************************************************************)
EXTENDS Integers, Sequences, FiniteSets, TLC

\* ------------------------------------------------------------- constants
PORT == 8000

\* ---------------------------------------------------------------- bounds
\* connections the clients open during a run
MaxConns == 2
\* versions the served file goes through (its content and its mtime)
MaxVersion == 2

Conns == 1..MaxConns
Instances == {"i1", "i2"}
None == "none"

LaunchDir == "launchdir"
ScriptDir == "scriptdir"

\* --------------------------------------------------------------- requests
Methods == {"GET", "HEAD", "POST", "OPTIONS"}
Versions == {"HTTP/1.1", "HTTP/2.0", "FOO/1.1"}
Targets == {"/a.txt", "/d", "/d/", "/nope"}

\* What a client puts on the wire: the request line as its words (command,
\* target, last word), or no line at all (eof), or an over-long line; ims is
\* the If-Modified-Since time, 0 when the header is absent.
Line(n, c, t, v, m) ==
    [raw |-> "line", nwords |-> n, command |-> c, target |-> t, version |-> v, ims |-> m]

Requests ==
    { [raw |-> r, nwords |-> 0, command |-> "GET", target |-> "/a.txt",
       version |-> "HTTP/1.1", ims |-> 0] : r \in {"eof", "toolong", "line"} }
    \cup { Line(3, "GET", t, "HTTP/1.1", 0) : t \in Targets }
    \cup { Line(3, "HEAD", t, "HTTP/1.1", 0) : t \in {"/a.txt", "/nope"} }
    \cup { Line(3, c, "/a.txt", "HTTP/1.1", 0) : c \in Methods }
    \cup { Line(3, "GET", "/a.txt", "HTTP/1.1", m) : m \in 1..MaxVersion }
    \cup { Line(3, c, "/a.txt", v, 0) : c \in {"GET", "POST"}, v \in Versions }
    \cup { Line(2, "GET", t, "HTTP/1.1", 0) : t \in {"/a.txt", "/nope"} }
    \cup { Line(2, "POST", "/a.txt", "HTTP/1.1", 0) }
    \cup { Line(n, "GET", "/a.txt", "HTTP/1.1", 0) : n \in {1, 4} }

\* ------------------------------------------------------- response pieces
HeaderLine(k, v) == [k |-> k, v |-> v]
BlankLine == HeaderLine("", "")

\* BaseHTTPRequestHandler.responses, the codes this handler can send
StatusText ==
    [c \in {200, 301, 304, 400, 404, 414, 501, 505} |->
        CASE c = 200 -> "200 OK"
          [] c = 301 -> "301 Moved Permanently"
          [] c = 304 -> "304 Not Modified"
          [] c = 400 -> "400 Bad Request"
          [] c = 404 -> "404 Not Found"
          [] c = 414 -> "414 Request-URI Too Long"
          [] c = 501 -> "501 Not Implemented"
          [] c = 505 -> "505 HTTP Version Not Supported"]

\* protocol_version of BaseHTTPRequestHandler, the first word of a status line
protocol_version == "HTTP/1.0"
default_request_version == "HTTP/0.9"

NoBody == [kind |-> "none", data |-> 0]
ErrorBody(code) == [kind |-> "error", data |-> code]
ListingBody == [kind |-> "listing", data |-> 0]
FileBody(ver) == [kind |-> "file", data |-> ver]

\* A fresh handler for one connection: nothing parsed, nothing written.
NewHandler ==
    [request_version |-> "", command |-> "", path |-> "", ims |-> 0,
     headers_buffer |-> << >>, wfile |-> << >>, body |-> NoBody, code |-> 0]

\* ----------------------------------------- BaseHTTPRequestHandler output
send_response_only(h, code) ==
    IF h.request_version # "HTTP/0.9"
    THEN [h EXCEPT !.headers_buffer = Append(@, HeaderLine(protocol_version, StatusText[code]))]
    ELSE h

send_header(h, keyword, value) ==
    IF h.request_version # "HTTP/0.9"
    THEN [h EXCEPT !.headers_buffer = Append(@, HeaderLine(keyword, value))]
    ELSE h

\* log_request(code) records the code; then the status line and two headers
send_response(h, code) ==
    send_header(
        send_header(send_response_only([h EXCEPT !.code = code], code),
                    "Server", "SimpleHTTP"),
        "Date", "now")

flush_headers(h) ==
    [h EXCEPT !.wfile = @ \o h.headers_buffer, !.headers_buffer = << >>]

\* BaseHTTPRequestHandler.end_headers: the blank line, then the flush
super_end_headers(h) ==
    IF h.request_version # "HTTP/0.9"
    THEN flush_headers([h EXCEPT !.headers_buffer = Append(@, BlankLine)])
    ELSE h

ACAO == HeaderLine("Access-Control-Allow-Origin", "*")
ACAM == HeaderLine("Access-Control-Allow-Methods", "GET, POST, OPTIONS")
ACAH == HeaderLine("Access-Control-Allow-Headers", "Content-Type")
CorsHeaders == {ACAO, ACAM, ACAH}

\* a plausible slip: the CORS headers sent after the block was finalized
end_headers_late(h) ==
    send_header(send_header(send_header(super_end_headers(h),
        ACAO.k, ACAO.v), ACAM.k, ACAM.v), ACAH.k, ACAH.v)

\* MyHTTPRequestHandler.end_headers
end_headers(h) ==
    super_end_headers(
        send_header(send_header(send_header(h,
            ACAO.k, ACAO.v), ACAM.k, ACAM.v), ACAH.k, ACAH.v))

send_error(h, code) ==
    LET h1 == send_header(send_response(h, code), "Connection", "close")
        hasBody == code >= 200 /\ code \notin {204, 205, 304}
        h2 == IF hasBody
              THEN send_header(send_header(h1, "Content-Type", "text/html;charset=utf-8"),
                               "Content-Length", "len")
              ELSE h1
        h3 == end_headers(h2)
    IN  IF h.command # "HEAD" /\ hasBody THEN [h3 EXCEPT !.body = ErrorBody(code)] ELSE h3

\* ------------------------------------------------------------ file system
\* What the handler sees below its directory.  The script directory holds
\* the file a.txt (readable or not, at version ver) and the
\* directory d, which has no index page; nothing is known below any other
\* directory.
PathKind(fs, target) ==
    IF fs.root # ScriptDir THEN "none"
    ELSE CASE target = "/a.txt" -> "file"
           [] target \in {"/d", "/d/"} -> "dir"
           [] OTHER -> "none"

\* a slip: a path that cannot be opened is served all the same
CanOpenAny(fs, target) == TRUE

\* open(path, 'rb') succeeds
CanOpen(fs, target) == PathKind(fs, target) = "file" /\ fs.mode = "rw"

\* a plausible slip: the content read once and kept for later requests
ReadFileCached(fs) == FileBody(1)

\* the bytes copyfile() takes from the opened file
ReadFile(fs) == FileBody(fs.ver)

\* --------------------------------------------- BaseHTTPRequestHandler input
\* the (major, minor) pair of the last word, << >> when it does not parse
VersionNumber(v) ==
    CASE v = "HTTP/1.0" -> <<1, 0>>
      [] v = "HTTP/1.1" -> <<1, 1>>
      [] v = "HTTP/2.0" -> <<2, 0>>
      [] OTHER -> << >>

parse_request(h, req) ==
    LET h0 == [h EXCEPT !.command = "", !.request_version = default_request_version]
        n == req.nwords
        vn == VersionNumber(req.version)
        h1 == IF n >= 3 THEN [h0 EXCEPT !.request_version = req.version] ELSE h0
    IN  IF n = 0 THEN [ok |-> FALSE, h |-> h0]
        ELSE IF n >= 3 /\ vn = << >> THEN [ok |-> FALSE, h |-> send_error(h0, 400)]
        ELSE IF n >= 3 /\ vn[1] >= 2 THEN [ok |-> FALSE, h |-> send_error(h0, 505)]
        ELSE IF ~(2 <= n /\ n <= 3) THEN [ok |-> FALSE, h |-> send_error(h1, 400)]
        ELSE IF n = 2 /\ req.command # "GET" THEN [ok |-> FALSE, h |-> send_error(h1, 400)]
        ELSE [ok |-> TRUE,
              h |-> [h1 EXCEPT !.command = req.command, !.path = req.target,
                               !.ims = req.ims]]

\* ---------------------------------------------- SimpleHTTPRequestHandler
list_directory(h) ==
    [h |-> end_headers(
             send_header(
               send_header(send_response(h, 200), "Content-type", "text/html; charset=utf-8"),
               "Content-Length", "len")),
     f |-> ListingBody]

send_head(h, fs) ==
    IF PathKind(fs, h.path) = "dir"
    THEN IF h.path = "/d"
         THEN [h |-> end_headers(
                       send_header(
                         send_header(send_response(h, 301), "Location", "/d/"),
                         "Content-Length", "0")),
               f |-> NoBody]
         ELSE list_directory(h)
    ELSE IF ~CanOpen(fs, h.path)
    THEN [h |-> send_error(h, 404), f |-> NoBody]
    ELSE IF h.ims # 0 /\ fs.ver <= h.ims
    THEN [h |-> end_headers(send_response(h, 304)), f |-> NoBody]
    ELSE [h |-> end_headers(
                  send_header(
                    send_header(
                      send_header(send_response(h, 200), "Content-type", "text/plain"),
                      "Content-Length", "len"),
                    "Last-Modified", "mtime")),
          f |-> ReadFile(fs)]

do_GET(h, fs) ==
    LET r == send_head(h, fs)
    IN  IF r.f # NoBody THEN [r.h EXCEPT !.body = r.f] ELSE r.h

do_HEAD(h, fs) == send_head(h, fs).h

\* a slip: the methods the CORS header advertises are taken as implemented
HasMethodAdvertised(command) == command \in {"GET", "HEAD", "POST", "OPTIONS"}

\* the methods MyHTTPRequestHandler has a do_<command> for
HasMethod(command) == command \in {"GET", "HEAD"}

handle_one_request(h, req, fs) ==
    IF req.raw = "toolong"
    THEN send_error([h EXCEPT !.request_version = "", !.command = ""], 414)
    ELSE IF req.raw = "eof" THEN h
    ELSE LET p == parse_request(h, req)
         IN  IF ~p.ok THEN p.h
             ELSE IF ~HasMethod(p.h.command) THEN send_error(p.h, 501)
             ELSE IF p.h.command = "GET" THEN do_GET(p.h, fs)
             ELSE do_HEAD(p.h, fs)

\* ------------------------------------------------------------------ state
VARIABLES
    pc,         \* per instance: where the script is
    cwd,        \* per instance: the working directory of the process
    sock,       \* per instance: the listening socket of its TCPServer
    stdout,     \* per instance: the lines printed
    exitStatus, \* per instance: the exit status, -1 while the process runs
    backlog,    \* per instance: connections queued on the listening socket
    cur,        \* per instance: the connection finish_request is working on
    req,        \* per instance: the request read from that connection
    conn,       \* per connection: the client's side and what became of it
    disk,       \* the file a.txt in the script directory
    resp,       \* per instance: what the handler wrote for that request
    caught      \* per instance: a KeyboardInterrupt reached the except clause

vars == <<pc, cwd, sock, stdout, exitStatus, backlog, cur, req, conn, disk, resp, caught>>

NoSock == [addr |-> "", port |-> 0, open |-> FALSE]
NoReq == [raw |-> "notread", nwords |-> 0, command |-> "", target |-> "",
          version |-> "", ims |-> 0]

RunningLine == [text |-> "server running at http://localhost:PORT/", port |-> PORT]
PressLine == [text |-> "Press Ctrl+C to stop", port |-> 0]
StoppedLine == [text |-> "Server stopped", port |-> 0]

ServeLoop == {"idle", "reading", "responded"}
Running == {"start", "chdir", "bound", "announced"} \cup ServeLoop \cup {"except", "printed"}

Init ==
    /\ pc = [i \in Instances |-> "start"]
    /\ cwd = [i \in Instances |-> LaunchDir]
    /\ sock = [i \in Instances |-> NoSock]
    /\ stdout = [i \in Instances |-> << >>]
    /\ exitStatus = [i \in Instances |-> -1]
    /\ backlog = [i \in Instances |-> << >>]
    /\ cur = [i \in Instances |-> 0]
    /\ req = [i \in Instances |-> NoReq]
    /\ conn = [c \in Conns |-> [st |-> "new", client |-> "quiet"]]
    /\ disk = [ver |-> 1, mode |-> "rw"]
    /\ resp = [i \in Instances |-> NewHandler]
    /\ caught = [i \in Instances |-> FALSE]

\* ------------------------------------------------------------ the script
\* line 21: os.chdir(os.path.dirname(os.path.abspath(__file__)))
Chdir(i) ==
    /\ pc[i] = "start"
    /\ cwd' = [cwd EXCEPT ![i] = ScriptDir]
    /\ pc' = [pc EXCEPT ![i] = "chdir"]
    /\ UNCHANGED <<sock, stdout, exitStatus, backlog, cur, req, conn, disk, resp, caught>>

\* a slip: SO_REUSEPORT set, the kernel lets a second listener in
PortFreeReuse(i) == TRUE

\* the kernel refuses a bind to a port another open socket listens on
\* (TCPServer.allow_reuse_address is False)
PortFree(i) == \A j \in Instances \ {i} : ~(sock[j].open /\ sock[j].port = PORT)

\* line 23: TCPServer(("", PORT), ...): server_bind and server_activate
Bind(i) ==
    /\ pc[i] = "chdir"
    /\ PortFree(i)
    /\ sock' = [sock EXCEPT ![i] = [addr |-> "", port |-> PORT, open |-> TRUE]]
    /\ pc' = [pc EXCEPT ![i] = "bound"]
    /\ UNCHANGED <<cwd, stdout, exitStatus, backlog, cur, req, conn, disk, resp, caught>>

\* line 23: server_bind raises OSError; __init__ closes the socket and the
\* exception ends the script
BindFail(i) ==
    /\ pc[i] = "chdir"
    /\ ~PortFree(i)
    /\ pc' = [pc EXCEPT ![i] = "exited"]
    /\ exitStatus' = [exitStatus EXCEPT ![i] = 1]
    /\ UNCHANGED <<cwd, sock, stdout, backlog, cur, req, conn, disk, resp, caught>>

\* a slip: the announcement printed before the server is constructed
AnnounceEarly(i) ==
    /\ pc[i] = "chdir"
    /\ stdout' = [stdout EXCEPT ![i] = Append(@, RunningLine)]
    /\ pc' = [pc EXCEPT ![i] = "announced"]
    /\ UNCHANGED <<cwd, sock, exitStatus, backlog, cur, req, conn, disk, resp, caught>>

\* line 24
Announce(i) ==
    /\ pc[i] = "bound"
    /\ stdout' = [stdout EXCEPT ![i] = Append(@, RunningLine)]
    /\ pc' = [pc EXCEPT ![i] = "announced"]
    /\ UNCHANGED <<cwd, sock, exitStatus, backlog, cur, req, conn, disk, resp, caught>>

\* lines 25-27: the second line, then into the try and serve_forever()
EnterServeForever(i) ==
    /\ pc[i] = "announced"
    /\ stdout' = [stdout EXCEPT ![i] = Append(@, PressLine)]
    /\ pc' = [pc EXCEPT ![i] = "idle"]
    /\ UNCHANGED <<cwd, sock, exitStatus, backlog, cur, req, conn, disk, resp, caught>>


\* ------------------------------------------------------------- serve loop
\* what the handler of instance i sees on disk: SimpleHTTPRequestHandler
\* serves os.getcwd()
Fs(i) == [root |-> cwd[i], ver |-> disk.ver, mode |-> disk.mode]

\* a connection the server is through with; st says how it ended
Closed(how) == [st |-> how, client |-> "closed"]

\* a slip: ThreadingMixIn semantics, the loop accepts while a request is in hand
CanAcceptThreaded(i) == pc[i] \in ServeLoop

\* serve_forever() takes the next connection only between two requests:
\* TCPServer.process_request runs finish_request in the serving thread
CanAccept(i) == pc[i] = "idle"

\* _handle_request_noblock: get_request, then the handler is constructed and
\* blocks in rfile.readline()
Accept(i) ==
    /\ CanAccept(i)
    /\ pc[i] \in ServeLoop
    /\ backlog[i] # << >>
    /\ cur' = [cur EXCEPT ![i] = Head(backlog[i])]
    /\ conn' = [conn EXCEPT ![Head(backlog[i])].st = "handling"]
    /\ backlog' = [backlog EXCEPT ![i] = Tail(@)]
    /\ req' = [req EXCEPT ![i] = NoReq]
    /\ resp' = [resp EXCEPT ![i] = NewHandler]
    /\ pc' = [pc EXCEPT ![i] = "reading"]
    /\ UNCHANGED <<cwd, sock, stdout, exitStatus, disk, caught>>

\* handle_one_request: the request line and the headers arrive (one of the
\* Requests) and the handler runs to its end; resp is the handler with
\* what it wrote to wfile
Respond(i) ==
    /\ pc[i] = "reading"
    /\ conn[cur[i]].client = "sent"
    /\ \E r \in Requests :
        /\ req' = [req EXCEPT ![i] = r]
        /\ resp' = [resp EXCEPT ![i] = handle_one_request(NewHandler, r, Fs(i))]
    /\ pc' = [pc EXCEPT ![i] = "responded"]
    /\ UNCHANGED <<cwd, sock, stdout, exitStatus, backlog, cur, conn, disk, caught>>

\* finish() and shutdown_request(): the connection is closed and the loop
\* goes back to select()
Finish(i) ==
    /\ pc[i] = "responded"
    /\ conn' = [conn EXCEPT ![cur[i]] = Closed("served")]
    /\ cur' = [cur EXCEPT ![i] = 0]
    /\ req' = [req EXCEPT ![i] = NoReq]
    /\ resp' = [resp EXCEPT ![i] = NewHandler]
    /\ pc' = [pc EXCEPT ![i] = "idle"]
    /\ UNCHANGED <<cwd, sock, stdout, exitStatus, backlog, disk, caught>>

\* server_close(): the listening socket goes, and with it what it queued;
\* the connection in hand, if any, ends as `hand` says
ConnsAfterClose(i, inhand, hand) ==
    [c \in Conns |->
        IF c = inhand THEN Closed(hand)
        ELSE IF \E k \in 1..Len(backlog[i]) : backlog[i][k] = c
             THEN Closed("reset")
        ELSE conn[c]]

\* a slip: no except clause around process_request, the exception ends the
\* script (the with block closes the socket)
HandlerRaisesFatal(i) ==
    /\ pc[i] = "reading"
    /\ conn[cur[i]].client = "gone"
    /\ conn' = ConnsAfterClose(i, cur[i], "failed")
    /\ backlog' = [backlog EXCEPT ![i] = << >>]
    /\ sock' = [sock EXCEPT ![i].open = FALSE]
    /\ cur' = [cur EXCEPT ![i] = 0]
    /\ req' = [req EXCEPT ![i] = NoReq]
    /\ resp' = [resp EXCEPT ![i] = NewHandler]
    /\ pc' = [pc EXCEPT ![i] = "exited"]
    /\ exitStatus' = [exitStatus EXCEPT ![i] = 1]
    /\ UNCHANGED <<cwd, stdout, disk, caught>>

\* the client reset the connection: rfile.readline() raises
\* ConnectionResetError; _handle_request_noblock catches
\* Exception, calls handle_error and shutdown_request and the loop goes on
HandlerRaises(i) ==
    /\ pc[i] = "reading"
    /\ conn[cur[i]].client = "gone"
    /\ conn' = [conn EXCEPT ![cur[i]] = Closed("failed")]
    /\ cur' = [cur EXCEPT ![i] = 0]
    /\ req' = [req EXCEPT ![i] = NoReq]
    /\ resp' = [resp EXCEPT ![i] = NewHandler]
    /\ pc' = [pc EXCEPT ![i] = "idle"]
    /\ UNCHANGED <<cwd, sock, stdout, exitStatus, backlog, disk, caught>>

\* ------------------------------------------------------------- interrupts
\* SIGINT outside the try of line 26 (before serve_forever, or in the except
\* clause and after): KeyboardInterrupt is not caught; the with block closes
\* the socket if there is one and the interpreter ends on the signal
InterruptUncaught(i) ==
    /\ pc[i] \in {"start", "chdir", "bound", "announced", "except", "printed"}
    /\ sock' = [sock EXCEPT ![i].open = FALSE]
    /\ backlog' = [backlog EXCEPT ![i] = << >>]
    /\ conn' = ConnsAfterClose(i, 0, "reset")
    /\ pc' = [pc EXCEPT ![i] = "exited"]
    /\ exitStatus' = [exitStatus EXCEPT ![i] = 130]
    /\ UNCHANGED <<cwd, stdout, cur, req, disk, resp, caught>>

\* SIGINT while serve_forever() waits in select(): KeyboardInterrupt leaves
\* serve_forever and reaches line 28
InterruptIdle(i) ==
    /\ pc[i] = "idle"
    /\ caught' = [caught EXCEPT ![i] = TRUE]
    /\ pc' = [pc EXCEPT ![i] = "except"]
    /\ UNCHANGED <<cwd, sock, stdout, exitStatus, backlog, cur, req, conn, disk, resp>>

\* what becomes of the connection in hand when KeyboardInterrupt passes
\* through _handle_request_noblock: the bare except calls shutdown_request
\* and re-raises; only a handler that had already written everything has
\* answered
AfterInterrupt(i) == IF pc[i] = "responded" THEN "served" ELSE "dropped"

\* SIGINT while a request is in hand: KeyboardInterrupt is no Exception, so
\* it leaves the handler and reaches line 28
InterruptRequest(i) ==
    /\ pc[i] \in {"reading", "responded"}
    /\ caught' = [caught EXCEPT ![i] = TRUE]
    /\ conn' = [conn EXCEPT ![cur[i]] = Closed(AfterInterrupt(i))]
    /\ cur' = [cur EXCEPT ![i] = 0]
    /\ req' = [req EXCEPT ![i] = NoReq]
    /\ resp' = [resp EXCEPT ![i] = NewHandler]
    /\ pc' = [pc EXCEPT ![i] = "except"]
    /\ UNCHANGED <<cwd, sock, stdout, exitStatus, backlog, disk>>

\* a slip: the except clause passes
PrintNothing(i) ==
    /\ pc[i] = "except"
    /\ pc' = [pc EXCEPT ![i] = "printed"]
    /\ UNCHANGED <<cwd, sock, stdout, exitStatus, backlog, cur, req, conn, disk, resp, caught>>

\* line 29
PrintStopped(i) ==
    /\ pc[i] = "except"
    /\ stdout' = [stdout EXCEPT ![i] = Append(@, StoppedLine)]
    /\ pc' = [pc EXCEPT ![i] = "printed"]
    /\ UNCHANGED <<cwd, sock, exitStatus, backlog, cur, req, conn, disk, resp, caught>>

\* the end of the with block (server_close) and of the script
Exit(i) ==
    /\ pc[i] = "printed"
    /\ sock' = [sock EXCEPT ![i].open = FALSE]
    /\ backlog' = [backlog EXCEPT ![i] = << >>]
    /\ conn' = ConnsAfterClose(i, 0, "reset")
    /\ pc' = [pc EXCEPT ![i] = "exited"]
    /\ exitStatus' = [exitStatus EXCEPT ![i] = 0]
    /\ UNCHANGED <<cwd, stdout, cur, req, disk, resp, caught>>

\* ---------------------------------------------------------- environment
\* a client connects to port 8000; the kernel queues it on the listener
Connect(c) ==
    /\ conn[c].st = "new"
    /\ \E i \in Instances :
        /\ sock[i].open
        /\ sock[i].port = PORT
        /\ backlog' = [backlog EXCEPT ![i] = Append(@, c)]
    /\ conn' = [conn EXCEPT ![c].st = "queued"]
    /\ UNCHANGED <<pc, cwd, sock, stdout, exitStatus, cur, req, disk, resp, caught>>

\* the client writes its request (or closes its sending side)
Send(c) ==
    /\ conn[c].st \in {"queued", "handling"}
    /\ conn[c].client = "quiet"
    /\ conn' = [conn EXCEPT ![c].client = "sent"]
    /\ UNCHANGED <<pc, cwd, sock, stdout, exitStatus, backlog, cur, req, disk, resp, caught>>

\* the client resets the connection
Abort(c) ==
    /\ conn[c].st \in {"queued", "handling"}
    /\ conn[c].client # "gone"
    /\ conn' = [conn EXCEPT ![c].client = "gone"]
    /\ UNCHANGED <<pc, cwd, sock, stdout, exitStatus, backlog, cur, req, disk, resp, caught>>

\* somebody edits or protects a.txt
WriteFile ==
    /\ disk.ver < MaxVersion
    /\ disk' = [ver |-> disk.ver + 1, mode |-> "rw"]
    /\ UNCHANGED <<pc, cwd, sock, stdout, exitStatus, backlog, cur, req, conn, resp, caught>>

ChangeMode ==
    /\ \E m \in {"rw", "unreadable"} :
        /\ m # disk.mode
        /\ disk' = [disk EXCEPT !.mode = m]
    /\ UNCHANGED <<pc, cwd, sock, stdout, exitStatus, backlog, cur, req, conn, resp, caught>>

\* ------------------------------------------------------------------ spec
Step(i) ==
    \/ Chdir(i)
    \/ Bind(i)
    \/ BindFail(i)
    \/ Announce(i)
    \/ EnterServeForever(i)
    \/ Accept(i)
    \/ Respond(i)
    \/ Finish(i)
    \/ HandlerRaises(i)
    \/ PrintStopped(i)
    \/ Exit(i)

Interrupt(i) ==
    \/ InterruptUncaught(i)
    \/ InterruptIdle(i)
    \/ InterruptRequest(i)

Next ==
    \/ \E i \in Instances : Step(i)
    \/ \E i \in Instances : Interrupt(i)
    \/ \E c \in Conns : Connect(c)
    \/ \E c \in Conns : Send(c)
    \/ \E c \in Conns : Abort(c)
    \/ WriteFile
    \/ ChangeMode

Spec == Init /\ [][Next]_vars

\* The interpreter keeps running the script: every step of an instance that
\* does not wait for a client is taken.
FairSpec == Spec /\ \A i \in Instances : WF_vars(Step(i))

\* ================================================================ claims
\* ------------------------------------------------ vocabulary of the claims
Responded == {i \in Instances : pc[i] = "responded"}

\* the handler put something on the wire
Emitted(h) == h.wfile # << >> \/ h.body # NoBody

Places(w, name) == {k \in 1..Len(w) : w[k].k = name}

\* the header block on the wire is finalized once, and each CORS header
\* stands in it exactly once, with its value, before the blank line
CorsOK(h) ==
    /\ Cardinality(Places(h.wfile, "")) = 1
    /\ h.headers_buffer = << >>
    /\ \A x \in CorsHeaders :
        /\ Cardinality(Places(h.wfile, x.k)) = 1
        /\ \A k \in Places(h.wfile, x.k) :
            /\ h.wfile[k] = x
            /\ \A b \in Places(h.wfile, "") : k < b

\* the request line ends in a version the handler accepts (HTTP/1.x), or the
\* line was over-long: the cases in which the handler's request_version is
\* not HTTP/0.9 when it answers
Versioned(r) ==
    \/ r.raw = "toolong"
    \/ /\ r.raw = "line"
       /\ r.nwords >= 3
       /\ VersionNumber(r.version) # << >>
       /\ VersionNumber(r.version)[1] < 2

\* a request line the parser accepts: command and target, with or without
\* a supported version
WellFormed(r) ==
    /\ r.raw = "line"
    /\ r.nwords \in {2, 3}
    /\ r.nwords = 3 => Versioned(r)
    /\ r.nwords = 2 => r.command = "GET"

Printed(i, line) == \E k \in 1..Len(stdout[i]) : stdout[i][k] = line

\* ------------------------------------------------------------------- C1
\* C1 as stated: every response the server emits carries the three CORS
\* headers, each exactly once, before the header block is finalized.
C1_AsStated ==
    \A i \in Responded : Emitted(resp[i]) => CorsOK(resp[i])

\* C1 amended: every response that has a header block (the request line
\* ended in HTTP/1.x or was over-long) carries the three CORS headers, each
\* exactly once and before the blank line, whatever its status; a response
\* to a request the handler takes as HTTP/0.9 (no version, an unparsable or
\* unsupported one) is the body alone, with no status line and no header.
C1_CorsOnEveryHeaderBlock ==
    \A i \in Responded :
        /\ resp[i].wfile # << >> => CorsOK(resp[i])
        /\ Emitted(resp[i]) /\ Versioned(req[i]) => resp[i].wfile # << >>
        /\ ~Versioned(req[i]) => resp[i].wfile = << >>

\* an error response with its header block: a 404 carrying the three headers
C1_Witness ==
    \E i \in Responded :
        /\ resp[i].code = 404
        /\ resp[i].body = ErrorBody(404)
        /\ CorsOK(resp[i])

\* the serve loop of i is up: the process runs and its socket listens
Serving(i) == pc[i] \in ServeLoop /\ sock[i].open /\ exitStatus[i] = -1

\* the step in which the handler of i answers the request it read
RespondStep(i) == pc[i] = "reading" /\ pc'[i] = "responded"

IsGet(r) == WellFormed(r) /\ r.command = "GET"

C7_AsStated ==
    \A i \in Responded :
        IsGet(req[i]) /\ PathKind(Fs(i), req[i].target) = "none"
        => resp[i].code = 404 /\ CorsOK(resp[i]) /\ Serving(i)

\* C7 amended: such a GET returns 404 with the error page and the server
\* runs on; the response carries the CORS headers when the request line
\* carries HTTP/1.x, and is the bare error page, without status line and
\* headers, when the request line has no version.
C7_NotFound ==
    \A i \in Responded :
        IsGet(req[i]) /\ PathKind(Fs(i), req[i].target) = "none"
        => /\ resp[i].code = 404
           /\ resp[i].body = ErrorBody(404)
           /\ Versioned(req[i]) => CorsOK(resp[i])
           /\ ~Versioned(req[i]) => resp[i].wfile = << >>
           /\ Serving(i)

C7_Witness ==
    \E i \in Responded :
        /\ IsGet(req[i])
        /\ req[i].target = "/nope"
        /\ Versioned(req[i])
        /\ resp[i].code = 404
        /\ CorsOK(resp[i])
        /\ Serving(i)

\* ------------------------------------------------------------------ C10
OtherMethod(r) == r.raw = "line" /\ r.nwords >= 1 /\ r.command \notin {"GET", "HEAD"}

\* C10 as stated: a request with a method other than GET and HEAD is
\* answered 501 with the three CORS headers, and the server keeps serving.
C10_AsStated ==
    \A i \in Responded :
        OtherMethod(req[i]) => resp[i].code = 501 /\ CorsOK(resp[i]) /\ Serving(i)

\* C10 amended: a request with a method other than GET and HEAD is never
\* answered with a success status and the server keeps serving; with a
\* request line of three words ending in HTTP/1.x the answer is 501 with
\* the three CORS headers; without a version, or with an unparsable or
\* unsupported one, it is 400 or 505, sent as the bare error page.
C10_NeverSuccess ==
    \A i \in Responded :
        OtherMethod(req[i])
        => /\ resp[i].code >= 400
           /\ Serving(i)
           /\ req[i].nwords = 3 /\ Versioned(req[i])
                => resp[i].code = 501 /\ resp[i].body = ErrorBody(501) /\ CorsOK(resp[i])
           /\ ~Versioned(req[i])
                => resp[i].code \in {400, 505} /\ resp[i].wfile = << >>

C10_Witness ==
    \E i \in Responded :
        /\ req[i].command = "OPTIONS"
        /\ resp[i].code = 501
        /\ CorsOK(resp[i])
        /\ Serving(i)

\* ------------------------------------------------------------------- C2
\* a step in which the request in hand of i fails: the handler raises, or it
\* answers with an error status, or it gives up without an answer
FailureStep(i) ==
    /\ pc[i] = "reading"
    /\ \/ conn'[cur[i]].st = "failed"
       \/ /\ pc'[i] = "responded"
          /\ resp'[i].code >= 400 \/ ~Emitted(resp'[i])

\* the process of i ended on a KeyboardInterrupt nothing caught
EndedOnSignal(i) == exitStatus[i] = 130

\* C2: a request-level failure never ends the server process and touches no
\* other connection: the step in which a request fails leaves the instance
\* in its serve loop with the socket listening and every other connection
\* and the accept queue as they were; after any response the loop is back
\* at accepting unless an interrupt arrives; every connection starts with
\* a fresh handler; an instance that was serving ends only on an interrupt.
C2_FailuresContained ==
    /\ [][\A i \in Instances :
            FailureStep(i)
            => /\ Serving(i)'
               /\ backlog' = backlog
               /\ \A c \in Conns \ {cur[i]} : conn'[c] = conn[c]
               /\ \A j \in Instances \ {i} : pc'[j] = pc[j] /\ sock'[j] = sock[j]]_vars
    /\ [][\A i \in Instances :
            pc[i] = "responded" /\ pc'[i] # "responded" /\ caught'[i] = caught[i]
            => pc'[i] = "idle" /\ Serving(i)']_vars
    /\ [](\A i \in Instances :
            pc[i] \in {"idle", "reading"} => resp[i] = NewHandler /\ req[i] = NoReq)
    /\ [](\A i \in Instances :
            pc[i] = "exited" /\ Printed(i, PressLine) => caught[i] \/ EndedOnSignal(i))

\* one connection failed in the handler, and a later one is answered 200
C2_Witness ==
    /\ \E c \in Conns : conn[c].st = "failed"
    /\ \E i \in Responded : resp[i].code = 200 /\ resp[i].body = FileBody(disk.ver)

C4_AsStated ==
    \A i \in Instances :
        Printed(i, StoppedLine) => \A c \in Conns : conn[c].st # "dropped"

\* ------------------------------------------------------------------- C5
\* C5: an instance started while another one holds port 8000 fails at the
\* bind: it ends with a nonzero status, has printed nothing, never listened
\* and never served, and the step changes nothing of the other instance,
\* its accept queue or its connections; two instances never listen at once.
C5_SecondInstanceFails ==
    /\ [](Cardinality({i \in Instances : sock[i].open}) <= 1)
    /\ [](\A i \in Instances :
            exitStatus[i] = 1 => stdout[i] = << >> /\ sock[i] = NoSock /\ ~caught[i])
    /\ [][\A i \in Instances :
            pc[i] = "chdir" /\ ~PortFree(i) /\ pc'[i] # "chdir"
            => /\ pc'[i] = "exited"
               /\ exitStatus'[i] \in {1, 130}
               /\ stdout'[i] = << >>
               /\ sock'[i] = NoSock
               /\ conn' = conn /\ backlog' = backlog /\ cur' = cur /\ resp' = resp
               /\ \A j \in Instances \ {i} :
                    pc'[j] = pc[j] /\ sock'[j] = sock[j] /\ stdout'[j] = stdout[j]]_vars

\* the second instance failed at the bind while the first answers a request
C5_Witness ==
    \E i, j \in Instances :
        /\ exitStatus[i] = 1
        /\ pc[j] = "responded"
        /\ Serving(j)
        /\ resp[j].code = 200

\* ------------------------------------------------------------------- C8
\* C8: the working directory is the script's directory before the socket is
\* bound; the announcement is the first line printed and is printed only
\* once the socket is bound to ("", PORT); a connection is accepted only
\* after both start-up lines; from the announcement on, working directory,
\* port and bind address never change.
C8_StartupOrder ==
    /\ [](\A i \in Instances : sock[i] # NoSock => cwd[i] = ScriptDir)
    /\ [](\A i \in Instances :
            Printed(i, RunningLine)
            => /\ stdout[i][1] = RunningLine
               /\ sock[i].port = PORT /\ sock[i].addr = ""
               /\ cwd[i] = ScriptDir)
    /\ [][\A i \in Instances :
            cur'[i] # cur[i] /\ cur'[i] # 0
            => /\ SubSeq(stdout[i], 1, 2) = <<RunningLine, PressLine>>
               /\ sock[i].open]_vars
    /\ [][\A i \in Instances :
            Printed(i, RunningLine)
            => /\ cwd'[i] = cwd[i]
               /\ sock'[i].port = sock[i].port
               /\ sock'[i].addr = sock[i].addr]_vars

C8_Witness ==
    \E i \in Responded :
        /\ cwd[i] = ScriptDir
        /\ sock[i] = [addr |-> "", port |-> PORT, open |-> TRUE]
        /\ stdout[i] = <<RunningLine, PressLine>>

\* ------------------------------------------------------------------- C9
InHand == {c \in Conns : conn[c].st = "handling"}

\* C9: at most one connection is in hand at any time, and it is the one the
\* serve loop works on; a queued connection is taken up only when none is
\* in hand, so while one connection stays in hand no later one is served.
C9_OneAtATime ==
    /\ [](Cardinality(InHand) <= 1)
    /\ [](\A c \in InHand : \E i \in Instances :
            cur[i] = c /\ pc[i] \in {"reading", "responded"})
    /\ [][\A c \in Conns :
            conn[c].st = "queued" /\ conn'[c].st \notin {"queued", "reset"}
            => conn'[c].st = "handling" /\ InHand = {}]_vars

\* a client that sends nothing is in hand, another that has sent waits
C9_Witness ==
    \E c, d \in Conns :
        /\ conn[c] = [st |-> "handling", client |-> "quiet"]
        /\ conn[d] = [st |-> "queued", client |-> "sent"]

====
